---- MODULE Spec2Model ----
(***************************************************************************)
(* The sensor streaming pipeline of RehabiDesk: a producer (run_simulator, *)
(* in simulator.py and in app.py) that writes samples to the stream file,  *)
(* and the three Dash callbacks of app.py that poll that file.             *)
(***************************************************************************)
EXTENDS Integers, Sequences, FiniteSets, TLC

VARIABLES
    impl,          \* which run_simulator runs: "simulator" (simulator.py) or "app" (app.py)
    pstate,        \* producer state: "INIT", "RUNNING", "STOPPED"
    pc,            \* producer's position inside run_simulator
    exists,        \* os.path.exists(STREAM_FILE)
    file,          \* rows of STREAM_FILE as persisted (what a reader opens)
    lines,         \* simulator.py: the local `lines` (empty once run_simulator has ended)
    sample_count,  \* the local sample_count of run_simulator
    exc,           \* how run_simulator ended: "none", "propagated", "swallowed", "interrupted"
    obs,           \* what the last consumer callback returned
    exercise_phase,\* the local exercise_phase of run_simulator's current iteration
    fn_args,       \* arguments of a call of a pure function of the repository
    fn_result,     \* what that call returned
    APPOINTMENTS_DB,  \* app.py: the list _APPOINTMENTS_DB
    PATIENT_INFO_DB   \* app.py: the dict _PATIENT_INFO_DB, username -> info

\* the call of a pure function under study
fn == <<fn_args, fn_result>>

\* app.py: the in-memory store behind DummyDB
db == <<APPOINTMENTS_DB, PATIENT_INFO_DB>>

vars == <<impl, pstate, pc, exists, file, lines, sample_count, exc, obs,
          exercise_phase, fn, db>>

-----------------------------------------------------------------------------
(* Bounds of the model *)

\* number of loop iterations the producer may start
MaxAppends == 260

\* only the first FlagHorizon samples may be drawn with a red flag
FlagHorizon == 1

\* the stream file may get corrupted before CorruptHorizon samples are produced
CorruptHorizon == 2

\* the last instant of an ECG recording, in ticks
MaxTime == 8

\* the most sample rows of a stream file whose window is read on its own
MaxRows == 120

\* np.sin takes the values -1, ..., 1 in steps of 1 / SinScale
SinScale == 4

\* the noise np.random.normal draws for the ECG, in hundredths, is within
\* -MaxNoise..MaxNoise
MaxNoise == 13

\* the values np.random.normal draws for accel_y and gyro_y are within
\* -MaxAxis..MaxAxis
MaxAxis == 6

-----------------------------------------------------------------------------
(* Program constants *)

\* simulator.py: MAX_SAMPLES = 250
MAX_SAMPLES == 250

\* app.py: pd.read_csv(STREAM_FILE).tail(50) in the chart callbacks
CHART_TAIL == 50

\* app.py: pd.read_csv(STREAM_FILE).tail(100) in monitor_patient_health
HEALTH_TAIL == 100

NORMAL == "NORMAL"
RED_FLAG_ARRHYTHMIA == "RED_FLAG_ARRHYTHMIA"
RED_FLAG_FATIGUE == "RED_FLAG_FATIGUE"

-----------------------------------------------------------------------------
(* Rows of the transport.  A row keeps the columns the pipeline reads:     *)
(* timestamp (the ordinal of the append that wrote the row), status_ecg    *)
(* and status_imu.  The header row holds the column names; its timestamp   *)
(* cell is written 0.                                                      *)

HeaderRow ==
    [timestamp |-> 0, status_ecg |-> "status_ecg", status_imu |-> "status_imu",
     eol |-> "CRLF"]

SampleRow(n, se, si) ==
    [timestamp |-> n, status_ecg |-> se, status_imu |-> si, eol |-> "CRLF"]

\* the cells of a row, without its line terminator
Cells(row) ==
    [timestamp |-> row.timestamp, status_ecg |-> row.status_ecg,
     status_imu |-> row.status_imu]

\* the row holds the cells of the header
IsHeader(row) == Cells(row) = Cells(HeaderRow)

\* The rows are written by csv.writer, whose line terminator is '\r\n', to
\* a file opened with newline='' (no translation): eol is "CRLF" or "LF".

\* a row left by an earlier run of the producer
StaleRow == SampleRow(-1, RED_FLAG_ARRHYTHMIA, RED_FLAG_FATIGUE)

\* a row cut short (fewer cells than the header): pd.read_csv fills the cells
\* it lacks with NaN
ShortRow == SampleRow(-2, "NaN", "NaN")

\* a row with more cells than the header: pd.read_csv raises ParserError
LongRow == SampleRow(-3, "EXTRA_CELLS", "EXTRA_CELLS")

\* a row whose number of cells is not the header's
Malformed(row) == Cells(row) \in {Cells(ShortRow), Cells(LongRow)}

Min(a, b) == IF a < b THEN a ELSE b
Max(a, b) == IF a > b THEN a ELSE b

\* Python s[i:] for i >= 0
PySliceFrom(s, i) == SubSeq(s, i + 1, Len(s))

\* Python s[-k:] for k >= 0 (s[-0:] is s[0:], the whole list)
PySliceLast(s, k) ==
    IF k = 0 THEN s ELSE SubSeq(s, Max(1, Len(s) - k + 1), Len(s))

-----------------------------------------------------------------------------
(* Producer: init_stream_file and run_simulator *)

\* status_ecg values generate_ecg_sample can return for the next sample:
\* simulator.py returns "NORMAL" always; app.py flags it when abs(noise) > 0.12
EcgStatuses ==
    IF impl = "app" /\ sample_count < FlagHorizon
    THEN {NORMAL, RED_FLAG_ARRHYTHMIA} ELSE {NORMAL}

\* status_imu values generate_imu_sample can return for the next sample:
\* simulator.py returns "NORMAL" always; app.py flags it when
\* abs(accel_y) > 5 or abs(gyro_y) > 3
ImuStatuses ==
    IF impl = "app" /\ sample_count < FlagHorizon
    THEN {NORMAL, RED_FLAG_FATIGUE} ELSE {NORMAL}

\* InitOpen opening the file for appending: what it held is kept
InitOpenAppending ==
    /\ pstate = "INIT" /\ pc = "start"
    /\ exists' = TRUE
    /\ file' = file
    /\ pc' = "init_opened"
    /\ UNCHANGED <<impl, pstate, lines, sample_count, exc, obs,
                 exercise_phase, fn, db>>

\* init_stream_file, first half: open(STREAM_FILE, 'w') creates or truncates
InitOpen ==
    /\ pstate = "INIT" /\ pc = "start"
    /\ exists' = TRUE
    /\ file' = <<>>
    /\ pc' = "init_opened"
    /\ UNCHANGED <<impl, pstate, lines, sample_count, exc, obs,
                 exercise_phase, fn, db>>

\* init_stream_file, second half: the header row reaches the file when the
\* with-block closes it; run_simulator then sets sample_count = 0 and
\* enters its loop
InitWriteHeader ==
    /\ pstate = "INIT" /\ pc = "init_opened"
    /\ file' = file \o <<HeaderRow>>
    /\ sample_count' = 0
    /\ pstate' = "RUNNING"
    /\ pc' = "loop"
    /\ UNCHANGED <<impl, exists, lines, exc, obs,
                 exercise_phase, fn, db>>

\* KeptLines with the slice one row too long: lines[-MAX_SAMPLES:]
KeptLinesOffByOne(ls) ==
    IF Len(ls) > MAX_SAMPLES
    THEN PySliceLast(ls, MAX_SAMPLES)
    ELSE PySliceFrom(ls, 1)

\* KeptLines keeping the oldest rows instead of the newest: lines[1:MAX_SAMPLES]
KeptLinesOldest(ls) ==
    IF Len(ls) > MAX_SAMPLES
    THEN SubSeq(ls, 2, MAX_SAMPLES)
    ELSE PySliceFrom(ls, 1)

\* simulator.py: the rows of `lines` that are written back after the header
KeptLines(ls) ==
    IF Len(ls) > MAX_SAMPLES
    THEN PySliceLast(ls, MAX_SAMPLES - 1)
    ELSE PySliceFrom(ls, 1)

\* simulator.py: what the with-block of the rewrite has written to f when
\* the producer is at position p
WrittenAt(p, ls) ==
    CASE p = "w_header" -> <<ls[1]>>
      [] p = "w_kept"   -> <<ls[1]>> \o KeptLines(ls)
      [] OTHER          -> <<>>

\* number of consecutive samples of one exercise phase: 100 in simulator.py,
\* 20 in app.py
PhaseSamples == IF impl = "simulator" THEN 100 ELSE 20

\* ExercisePhase counting the sample itself
ExercisePhaseOneBased(n) ==
    IF ((n + 1) \div PhaseSamples) % 2 = 0 THEN "extension" ELSE "flexion"

\* both: exercise_phase = 'extension' if (sample_count // P) % 2 == 0
\* else 'flexion'
ExercisePhase(n) ==
    IF (n \div PhaseSamples) % 2 = 0 THEN "extension" ELSE "flexion"

\* f.readlines() of a file opened with open(STREAM_FILE, 'r'): text mode
\* with universal newlines, every line terminator is read as '\n'
ReadLines(f) == [i \in 1..Len(f) |-> [f[i] EXCEPT !.eol = "LF"]]

\* SimReadLines counting the sample when the iteration begins, before
\* anything of it is written
SimReadLinesCounting ==
    /\ impl = "simulator" /\ pstate = "RUNNING" /\ pc = "loop"
    /\ sample_count < MaxAppends
    /\ exists
    /\ exercise_phase' = ExercisePhase(sample_count)
    /\ lines' = ReadLines(file)
    /\ pc' = "have_lines"
    /\ sample_count' = sample_count + 1
    /\ UNCHANGED <<impl, pstate, exists, file, exc, obs, fn, db>>

\* simulator.py: exercise_phase = ...; with open(STREAM_FILE, 'r') as f:
\* lines = f.readlines()
SimReadLines ==
    /\ impl = "simulator" /\ pstate = "RUNNING" /\ pc = "loop"
    /\ sample_count < MaxAppends
    /\ exists
    /\ exercise_phase' = ExercisePhase(sample_count)
    /\ lines' = ReadLines(file)
    /\ pc' = "have_lines"
    /\ UNCHANGED <<impl, pstate, exists, file, sample_count, exc, obs, fn, db>>

\* simulator.py: open(STREAM_FILE, 'w', newline='') truncates the file
SimOpenWrite ==
    /\ impl = "simulator" /\ pstate = "RUNNING" /\ pc = "have_lines"
    /\ file' = <<>>
    /\ exists' = TRUE
    /\ pc' = "w_open"
    /\ UNCHANGED <<impl, pstate, lines, sample_count, exc, obs,
                 exercise_phase, fn, db>>

\* simulator.py: f.write(lines[0]); an empty `lines` raises IndexError, which
\* leaves run_simulator (only KeyboardInterrupt is caught there)
SimWriteHeader ==
    /\ impl = "simulator" /\ pstate = "RUNNING" /\ pc = "w_open"
    /\ IF lines = <<>>
       THEN /\ pstate' = "STOPPED" /\ pc' = "done" /\ exc' = "propagated"
            /\ lines' = <<>>
       ELSE /\ pc' = "w_header" /\ UNCHANGED <<pstate, exc, lines>>
    /\ UNCHANGED <<impl, exists, file, sample_count, obs,
                 exercise_phase, fn, db>>

\* simulator.py: f.writelines(lines[-(MAX_SAMPLES-1):]) or f.writelines(lines[1:])
SimWriteKept ==
    /\ impl = "simulator" /\ pstate = "RUNNING" /\ pc = "w_header"
    /\ pc' = "w_kept"
    /\ UNCHANGED <<impl, pstate, exists, file, lines, sample_count, exc, obs,
                 exercise_phase, fn, db>>

\* simulator.py: the buffered writer may put what has been written so far on
\* disk before the with-block ends
SimFlush ==
    /\ impl = "simulator" /\ pstate = "RUNNING" /\ pc \in {"w_header", "w_kept"}
    /\ file # WrittenAt(pc, lines)
    /\ file' = WrittenAt(pc, lines)
    /\ UNCHANGED <<impl, pstate, pc, exists, lines, sample_count, exc, obs,
                 exercise_phase, fn, db>>

\* Rewritten with the kept rows written back in reverse order
RewrittenReversed(ls, row) ==
    LET kept == KeptLines(ls)
    IN  <<ls[1]>> \o [i \in 1..Len(kept) |-> kept[Len(kept) + 1 - i]] \o <<row>>

\* simulator.py: the content of the file when the with-block of the rewrite ends
Rewritten(ls, row) == <<ls[1]>> \o KeptLines(ls) \o <<row>>

\* simulator.py: writer.writerow([...]), the with-block closes the file,
\* sample_count += 1
SimWriteRowClose ==
    /\ impl = "simulator" /\ pstate = "RUNNING" /\ pc = "w_kept"
    /\ \E se \in EcgStatuses, si \in ImuStatuses :
          file' = Rewritten(lines, SampleRow(sample_count + 1, se, si))
    /\ sample_count' = sample_count + 1
    /\ pc' = "loop"
    /\ UNCHANGED <<impl, pstate, exists, lines, exc, obs,
                 exercise_phase, fn, db>>

\* AppAppend in a loop that its except clause does not leave: the thread
\* appends again after it has reported an exception
AppAppendAfterStop ==
    /\ impl = "app" /\ pstate \in {"RUNNING", "STOPPED"} /\ exc # "propagated"
    /\ sample_count < MaxAppends
    /\ \E se \in EcgStatuses, si \in ImuStatuses :
          file' = Append(file, SampleRow(sample_count + 1, se, si))
    /\ exists' = TRUE
    /\ exercise_phase' = ExercisePhase(sample_count)
    /\ sample_count' = sample_count + 1
    /\ UNCHANGED <<impl, pstate, pc, lines, exc, obs, fn, db>>

\* app.py: with open(STREAM_FILE, 'a') as f: writer.writerow([...]);
\* sample_count += 1
AppAppend ==
    /\ impl = "app" /\ pstate = "RUNNING" /\ pc = "loop"
    /\ sample_count < MaxAppends
    /\ \E se \in EcgStatuses, si \in ImuStatuses :
          file' = Append(file, SampleRow(sample_count + 1, se, si))
    /\ exists' = TRUE
    /\ exercise_phase' = ExercisePhase(sample_count)
    /\ sample_count' = sample_count + 1
    /\ UNCHANGED <<impl, pstate, pc, lines, exc, obs, fn, db>>

\* the positions at which the producer performs file I/O that can raise OSError
IoPositions ==
    IF impl = "simulator"
    THEN {"start", "init_opened", "loop", "have_lines", "w_header", "w_kept"}
    ELSE {"start", "init_opened", "loop"}

\* how an exception raised at position p leaves run_simulator: simulator.py
\* catches KeyboardInterrupt only; app.py catches Exception inside the loop,
\* prints it and breaks; init_stream_file is called outside both try blocks
Handling(p) ==
    IF impl = "app" /\ p \notin {"start", "init_opened"}
    THEN "swallowed" ELSE "propagated"

\* ProducerRaise with the handler retrying: the exception is caught and the
\* loop goes on with its next iteration
ProducerRaiseRetry ==
    /\ pstate \in {"INIT", "RUNNING"} /\ pc \in IoPositions
    /\ exc' = "swallowed"
    /\ pc' = IF pstate = "INIT" THEN pc ELSE "loop"
    /\ exc # "swallowed"
    /\ UNCHANGED <<impl, pstate, exists, file, lines, sample_count, obs,
                 exercise_phase, fn, db>>

\* an open, write or close of the stream file raises OSError
ProducerRaise ==
    /\ pstate \in {"INIT", "RUNNING"} /\ pc \in IoPositions
    /\ pstate' = "STOPPED"
    /\ pc' = "done"
    /\ exc' = Handling(pc)
    /\ lines' = <<>>
    /\ UNCHANGED <<impl, exists, file, sample_count, obs,
                 exercise_phase, fn, db>>

\* simulator.py runs in the main thread: Ctrl-C raises KeyboardInterrupt.
\* Inside the loop it is caught (the with-block first closes the file, which
\* flushes what was written); in init_stream_file it propagates
SimInterrupt ==
    /\ impl = "simulator" /\ pstate \in {"INIT", "RUNNING"}
    /\ pstate' = "STOPPED"
    /\ pc' = "done"
    /\ exc' = IF pstate = "INIT" THEN "propagated" ELSE "interrupted"
    /\ file' = IF pc \in {"w_header", "w_kept"} THEN WrittenAt(pc, lines) ELSE file
    /\ lines' = <<>>
    /\ UNCHANGED <<impl, exists, sample_count, obs,
                 exercise_phase, fn, db>>

Producer ==
    \/ InitOpen
    \/ InitWriteHeader
    \/ SimReadLines
    \/ SimOpenWrite
    \/ SimWriteHeader
    \/ SimWriteKept
    \/ SimFlush
    \/ SimWriteRowClose
    \/ AppAppend
    \/ ProducerRaise
    \/ SimInterrupt

-----------------------------------------------------------------------------
(* Consumers: the Dash callbacks of app.py that poll the stream file *)

\* what a callback returned: which callback, the kind of its return value,
\* the alerts it reported, and whether it called pd.read_csv
Outcome(c, o, a, f, r) ==
    [consumer |-> c, outcome |-> o, arrhythmia |-> a, fatigue |-> f, did_read |-> r]

NoCallback == Outcome("none", "none", FALSE, FALSE, FALSE)

\* pd.read_csv(STREAM_FILE): a file without any row raises EmptyDataError and
\* a row with too many cells raises ParserError; otherwise the first row names
\* the columns and the rest are the data rows
ReadCsv(f) ==
    IF f = <<>> \/ \E i \in 1..Len(f) : Cells(f[i]) = Cells(LongRow)
    THEN [raised |-> TRUE, columns |-> HeaderRow, rows |-> <<>>]
    ELSE [raised |-> FALSE, columns |-> f[1], rows |-> Tail(f)]

\* DfTail without the cut: the whole frame
DfTailAll(rows, n) == rows

\* DfTail taking the first rows: DataFrame.head(n)
DfHead(rows, n) == SubSeq(rows, 1, Min(n, Len(rows)))

\* DataFrame.tail(n): the last n rows
DfTail(rows, n) == SubSeq(rows, Max(1, Len(rows) - n + 1), Len(rows))

\* df[...] raises KeyError unless the first row of the file named the columns
HasColumns(csv) == IsHeader(csv.columns)

\* AnyArrhythmia looking at the latest row only
LastArrhythmia(df) == df # <<>> /\ df[Len(df)].status_ecg = RED_FLAG_ARRHYTHMIA

\* (df['status_ecg'] == 'RED_FLAG_ARRHYTHMIA').any()
AnyArrhythmia(df) == \E i \in 1..Len(df) : df[i].status_ecg = RED_FLAG_ARRHYTHMIA

\* (df['status_imu'] == 'RED_FLAG_FATIGUE').any()
AnyFatigue(df) == \E i \in 1..Len(df) : df[i].status_imu = RED_FLAG_FATIGUE

\* ChartsExcept without the handler: the exception leaves the callback
ChartsExceptReraise == Outcome("update_sensor_charts", "raised", FALSE, FALSE, TRUE)

\* update_sensor_charts: except Exception as e: print(...); return the
\* empty figures and "Error"
ChartsExcept == Outcome("update_sensor_charts", "error", FALSE, FALSE, TRUE)

\* update_main_dashboard_auto: except Exception: return no_update
DashExcept == Outcome("update_main_dashboard_auto", "no_update", FALSE, FALSE, TRUE)

\* monitor_patient_health: except Exception: return no_update, no_update
HealthExcept == Outcome("monitor_patient_health", "no_update", FALSE, FALSE, TRUE)

\* update_sensor_charts without the os.path.exists test
SensorChartsNoExistsTest(is_open) ==
    IF ~is_open
    THEN Outcome("update_sensor_charts", "waiting", FALSE, FALSE, FALSE)
    ELSE IF ReadCsv(file).raised
    THEN ChartsExcept
    ELSE Outcome("update_sensor_charts", "collecting", FALSE, FALSE, TRUE)

\* update_sensor_charts(n, is_open)
SensorChartsResult(is_open) ==
    IF ~is_open \/ ~exists
    THEN Outcome("update_sensor_charts", "waiting", FALSE, FALSE, FALSE)
    ELSE LET csv == ReadCsv(file)
             df  == DfTail(csv.rows, CHART_TAIL)
         IN  IF csv.raised
             THEN ChartsExcept
             ELSE IF Len(df) < 2
             THEN Outcome("update_sensor_charts", "collecting", FALSE, FALSE, TRUE)
             ELSE IF ~HasColumns(csv)
             THEN ChartsExcept
             ELSE Outcome("update_sensor_charts", "classified",
                          AnyArrhythmia(df), AnyFatigue(df), TRUE)

\* update_main_dashboard_auto(n, pathname): it reports the arrhythmia alert
\* only (line colour and title of the ECG figure)
MainDashboardResult(pathname) ==
    IF pathname # "/" \/ ~exists
    THEN Outcome("update_main_dashboard_auto", "no_update", FALSE, FALSE, FALSE)
    ELSE LET csv == ReadCsv(file)
             df  == DfTail(csv.rows, CHART_TAIL)
         IN  IF csv.raised
             THEN DashExcept
             ELSE IF Len(df) = 0
             THEN Outcome("update_main_dashboard_auto", "no_update", FALSE, FALSE, TRUE)
             ELSE IF ~HasColumns(csv)
             THEN DashExcept
             ELSE Outcome("update_main_dashboard_auto", "classified",
                          AnyArrhythmia(df), FALSE, TRUE)

\* monitor_patient_health(n, selected_patient)
PatientHealthResult(selected_patient) ==
    IF selected_patient = "" \/ ~exists
    THEN Outcome("monitor_patient_health", "no_update", FALSE, FALSE, FALSE)
    ELSE LET csv == ReadCsv(file)
             df  == DfTail(csv.rows, HEALTH_TAIL)
         IN  IF csv.raised \/ ~HasColumns(csv)
             THEN HealthExcept
             ELSE Outcome("monitor_patient_health", "classified",
                          AnyArrhythmia(df), AnyFatigue(df), TRUE)

\* update_sensor_charts with a read that consumes what it reads: the file is
\* left empty
update_sensor_charts_consuming ==
    /\ \E is_open \in BOOLEAN : obs' = SensorChartsResult(is_open)
    /\ obs' # obs
    /\ file' = IF obs'.did_read THEN <<>> ELSE file
    /\ UNCHANGED <<impl, pstate, pc, exists, lines, sample_count, exc,
                 exercise_phase, fn, db>>

\* the sensor-interval timer fires update_sensor_charts
update_sensor_charts ==
    /\ \E is_open \in BOOLEAN : obs' = SensorChartsResult(is_open)
    /\ obs' # obs
    /\ UNCHANGED <<impl, pstate, pc, exists, file, lines, sample_count, exc,
                 exercise_phase, fn, db>>

\* the sensor-interval timer fires update_main_dashboard_auto
update_main_dashboard_auto ==
    /\ \E pathname \in {"/", "/login"} : obs' = MainDashboardResult(pathname)
    /\ obs' # obs
    /\ UNCHANGED <<impl, pstate, pc, exists, file, lines, sample_count, exc,
                 exercise_phase, fn, db>>

\* monitor_patient_health holding the file so that the producer's next open
\* fails: the read stops the producer
monitor_patient_health_locking ==
    /\ \E selected_patient \in {"", "patient1"} :
          obs' = PatientHealthResult(selected_patient)
    /\ obs' # obs
    /\ pstate' = IF obs'.did_read /\ pstate = "RUNNING" THEN "STOPPED" ELSE pstate
    /\ exc' = IF obs'.did_read /\ pstate = "RUNNING" THEN "propagated" ELSE exc
    /\ UNCHANGED <<impl, pc, exists, file, lines, sample_count,
                 exercise_phase, fn, db>>

\* the sensor-interval timer fires monitor_patient_health
monitor_patient_health ==
    /\ \E selected_patient \in {"", "patient1"} :
          obs' = PatientHealthResult(selected_patient)
    /\ obs' # obs
    /\ UNCHANGED <<impl, pstate, pc, exists, file, lines, sample_count, exc,
                 exercise_phase, fn, db>>

Consumers ==
    \/ update_sensor_charts
    \/ update_main_dashboard_auto
    \/ monitor_patient_health

-----------------------------------------------------------------------------
(* The system *)

\* no pure function is under study
NoCall == [fn |-> "none"]

\* app.py DummyDB.__init__ when no rehabidesk_db.json was loaded: the test
\* appointments 'appt-1' (scheduled) and 'appt-2' (confirmed), and
\* paciente.torn added as a patient of dr.garcia; paciente.nuevo is left
\* out of _PATIENT_INFO_DB
DummyDBInit ==
    /\ APPOINTMENTS_DB = <<[id |-> 1, status |-> "scheduled"],
                           [id |-> 2, status |-> "confirmed"]>>
    /\ PATIENT_INFO_DB = [u \in {"paciente.torn"} |-> [doctor_user |-> "dr.garcia"]]

\* what an earlier run may have left in the stream file: its header and a
\* sample, possibly followed by a malformed row
StaleFiles ==
    {<<HeaderRow, StaleRow>>,
     <<HeaderRow, StaleRow, ShortRow>>,
     <<HeaderRow, StaleRow, LongRow>>}

\* the stream file may be absent, or left over from an earlier run
Init ==
    /\ impl \in {"simulator", "app"}
    /\ pstate = "INIT"
    /\ pc = "start"
    /\ exists \in BOOLEAN
    /\ file \in IF exists THEN StaleFiles ELSE {<<>>}
    /\ lines = <<>>
    /\ sample_count = 0
    /\ exc = "none"
    /\ obs = NoCallback
    /\ exercise_phase = "unset"
    /\ fn_args = NoCall
    /\ fn_result = NoCall
    /\ DummyDBInit

Next == Producer \/ Consumers

Spec == Init /\ [][Next]_vars

\* the producer alone, no callback polling
SpecProducer == Init /\ [][Producer]_vars

\* the steps run_simulator takes when nothing fails: its thread (app.py) or
\* process (simulator.py) is scheduled again after each time.sleep
ProducerProgress ==
    \/ InitOpen
    \/ InitWriteHeader
    \/ SimReadLines
    \/ SimOpenWrite
    \/ SimWriteHeader
    \/ SimWriteKept
    \/ SimWriteRowClose
    \/ AppAppend

\* the pipeline with a producer that keeps being scheduled; nothing is
\* assumed of the callbacks
SpecFair == Init /\ [][Next]_vars /\ WF_vars(ProducerProgress)

\* something other than the producer (another process, an editor) appends a
\* row with the wrong number of cells to the stream file
CorruptTransport ==
    /\ pstate = "RUNNING" /\ pc = "loop"
    /\ sample_count < CorruptHorizon
    /\ exists /\ file # <<>> /\ \A i \in 1..Len(file) : ~Malformed(file[i])
    /\ \E row \in {ShortRow, LongRow} : file' = Append(file, row)
    /\ UNCHANGED <<impl, pstate, pc, exists, lines, sample_count, exc, obs,
                 exercise_phase, fn, db>>

\* the producer working on a stream file that may get corrupted
SpecCorrupt == Init /\ [][Producer \/ CorruptTransport]_vars

-----------------------------------------------------------------------------
(* sensors.py: the BPM estimator.  Times are whole ticks, TicksPerSecond to *)
(* the second; a bpm is the exact fraction num / den, so that den = 0 is    *)
(* the inf or NaN of the floating-point division.                           *)

\* ticks per second of the Time column (a tick is 0.2 s)
TicksPerSecond == 5

RECURSIVE SortedSeq(_)
\* the elements of a set of integers, in increasing order
SortedSeq(S) ==
    IF S = {} THEN <<>>
    ELSE LET m == CHOOSE x \in S : \A y \in S : x <= y
         IN  <<m>> \o SortedSeq(S \ {m})

RECURSIVE Sum(_)
\* np.sum
Sum(a) == IF a = <<>> THEN 0 ELSE Head(a) + Sum(Tail(a))

\* t[peaks]: the elements of t at the indexes peaks
Take(t, peaks) == [i \in 1..Len(peaks) |-> t[peaks[i]]]

\* NpDiff taking each difference from the first element
NpDiffFromFirst(a) ==
    IF Len(a) < 2 THEN <<>> ELSE [i \in 1..(Len(a) - 1) |-> a[i + 1] - a[1]]

\* np.diff(a): the differences of consecutive elements
NpDiff(a) ==
    IF Len(a) < 2 THEN <<>> ELSE [i \in 1..(Len(a) - 1) |-> a[i + 1] - a[i]]

\* the bpm 0 that calculate_bpm returns without dividing
ZeroBpm == [num |-> 0, den |-> 1]

\* calculate_bpm without the test of the length: 60 / np.mean of no interval
\* is the NaN 0 / 0
calculate_bpm_unguarded(rr_intervals) ==
    [num |-> 60 * TicksPerSecond * Len(rr_intervals), den |-> Sum(rr_intervals)]

\* calculate_bpm(rr_intervals): 60 / np.mean(rr_intervals) if there is an
\* interval, else 0; the mean is Sum / (TicksPerSecond * Len) seconds
calculate_bpm(rr_intervals) ==
    IF Len(rr_intervals) > 0
    THEN [num |-> 60 * TicksPerSecond * Len(rr_intervals), den |-> Sum(rr_intervals)]
    ELSE ZeroBpm

\* load_ecg_and_compute_bpm, from the peaks that find_peaks returned (indexes
\* into t, increasing): rr_intervals = np.diff(t[peaks]); bpm = calculate_bpm
LoadEcgAndComputeBpm(t, peaks) ==
    LET rr_intervals == NpDiff(Take(t, peaks))
    IN  [fn |-> "load_ecg_and_compute_bpm",
         rr_intervals |-> rr_intervals,
         bpm |-> calculate_bpm(rr_intervals)]

\* the pipeline is not started while a pure function is studied
PipelineIdle ==
    /\ impl = "app" /\ pstate = "INIT" /\ pc = "start"
    /\ exists = FALSE /\ file = <<>> /\ lines = <<>>
    /\ sample_count = 0 /\ exc = "none" /\ obs = NoCallback
    /\ exercise_phase = "unset"
    /\ DummyDBInit

\* the recordings: a Time column that increases strictly up to MaxTime, with
\* any set of its samples detected as peaks
InitBpm ==
    /\ PipelineIdle
    /\ \E T \in SUBSET (0..MaxTime) :
          LET t == SortedSeq(T)
          IN  \E P \in SUBSET (1..Len(t)) :
                 fn_args = [fn |-> "load_ecg_and_compute_bpm",
                            t |-> t, peaks |-> SortedSeq(P)]
    /\ fn_result = NoCall

\* a call of load_ecg_and_compute_bpm returns
load_ecg_and_compute_bpm ==
    /\ fn_args.fn = "load_ecg_and_compute_bpm" /\ fn_result = NoCall
    /\ fn_result' = LoadEcgAndComputeBpm(fn_args.t, fn_args.peaks)
    /\ UNCHANGED <<impl, pstate, pc, exists, file, lines, sample_count, exc, obs,
                 exercise_phase, fn_args, db>>

SpecBpm == InitBpm /\ [][load_ecg_and_compute_bpm]_vars

-----------------------------------------------------------------------------
(* The synthesizers generate_ecg_sample and generate_imu_sample of           *)
(* simulator.py and of app.py, as functions of t (through the value of the  *)
(* sine) and of the values np.random.normal draws.  Angles are in units of  *)
(* 1 / SinScale degree, the ECG noise in hundredths.                        *)

\* app.py: abs(noise) > 0.12, in hundredths
EcgNoiseThreshold == 12

\* app.py: abs(accel_y) > 5
AccelYThreshold == 5

\* app.py: abs(gyro_y) > 3
GyroYThreshold == 3

Abs(x) == IF x < 0 THEN -x ELSE x

\* degrees in the unit of the angles
Deg(d) == d * SinScale

\* accel_x of generate_imu_sample, sin being SinScale times the sine;
\* simulator.py: max(0, min(100, 45 + 15 sin)), or 60 + 35 sin in flexion;
\* app.py: min(90, 45 sin + 45), or max(0, 90 - 45 sin) in flexion
KneeAngle(im, phase, sin) ==
    IF im = "simulator"
    THEN LET base_angle == IF phase = "extension"
                           THEN Deg(45) + 15 * sin
                           ELSE Deg(60) + 35 * sin
         IN  Max(0, Min(Deg(100), base_angle))
    ELSE IF phase = "extension"
         THEN Min(Deg(90), 45 * sin + Deg(45))
         ELSE Max(0, Deg(90) - 45 * sin)

\* generate_imu_sample: simulator.py returns gyro_y 0 and the status
\* "NORMAL"; app.py returns the gyro_y drawn and flags fatigue on accel_y
\* and gyro_y
GenerateImuSample(im, phase, sin, accel_y, gyro_y) ==
    [fn |-> "generate_imu_sample",
     accel_x |-> KneeAngle(im, phase, sin),
     accel_y |-> accel_y,
     gyro_y  |-> IF im = "simulator" THEN 0 ELSE gyro_y,
     status  |-> IF im = "app" /\ (Abs(accel_y) > AccelYThreshold
                                      \/ Abs(gyro_y) > GyroYThreshold)
                 THEN RED_FLAG_FATIGUE ELSE NORMAL]

\* generate_ecg_sample: simulator.py returns the status "NORMAL"; app.py
\* flags the arrhythmia on the noise drawn
GenerateEcgSample(im, noise) ==
    [fn |-> "generate_ecg_sample",
     status |-> IF im = "app" /\ Abs(noise) > EcgNoiseThreshold
                THEN RED_FLAG_ARRHYTHMIA ELSE NORMAL]

\* the calls of the synthesizers, with the sine of t and the values drawn
InitSynth ==
    /\ PipelineIdle
    /\ fn_args \in
          [fn : {"generate_imu_sample"}, impl : {"simulator", "app"},
           exercise_phase : {"extension", "flexion"}, sin : (-SinScale)..SinScale,
           accel_y : (-MaxAxis)..MaxAxis, gyro_y : (-MaxAxis)..MaxAxis]
          \cup
          [fn : {"generate_ecg_sample"}, impl : {"simulator", "app"},
           noise : (-MaxNoise)..MaxNoise]
    /\ fn_result = NoCall

\* a call of generate_imu_sample returns
generate_imu_sample ==
    /\ fn_args.fn = "generate_imu_sample" /\ fn_result = NoCall
    /\ fn_result' = GenerateImuSample(fn_args.impl, fn_args.exercise_phase,
                                      fn_args.sin, fn_args.accel_y, fn_args.gyro_y)
    /\ UNCHANGED <<impl, pstate, pc, exists, file, lines, sample_count, exc, obs,
                 exercise_phase, fn_args, db>>

\* a call of generate_ecg_sample returns
generate_ecg_sample ==
    /\ fn_args.fn = "generate_ecg_sample" /\ fn_result = NoCall
    /\ fn_result' = GenerateEcgSample(fn_args.impl, fn_args.noise)
    /\ UNCHANGED <<impl, pstate, pc, exists, file, lines, sample_count, exc, obs,
                 exercise_phase, fn_args, db>>

SpecSynth == InitSynth /\ [][generate_imu_sample \/ generate_ecg_sample]_vars

-----------------------------------------------------------------------------
(* The window of a callback: pd.read_csv(STREAM_FILE).tail(K), on stream    *)
(* files of any number of samples.                                         *)

\* a stream file of n unflagged samples, numbered as they were appended
StreamOf(n) ==
    <<HeaderRow>> \o [i \in 1..n |-> SampleRow(i, NORMAL, NORMAL)]

\* df = pd.read_csv(STREAM_FILE).tail(K) in the callback c
ReadCsvTail(c, f) ==
    [fn |-> "read_csv_tail",
     window |-> DfTail(ReadCsv(f).rows,
                       IF c = "monitor_patient_health"
                       THEN HEALTH_TAIL ELSE CHART_TAIL)]

\* a callback is about to read a stream file of up to MaxRows samples
InitWindow ==
    /\ PipelineIdle
    /\ \E c \in {"update_sensor_charts", "update_main_dashboard_auto",
                  "monitor_patient_health"}, n \in 0..MaxRows :
          fn_args = [fn |-> "read_csv_tail", consumer |-> c, f |-> StreamOf(n)]
    /\ fn_result = NoCall

\* the callback obtains its window
read_csv_tail ==
    /\ fn_args.fn = "read_csv_tail" /\ fn_result = NoCall
    /\ fn_result' = ReadCsvTail(fn_args.consumer, fn_args.f)
    /\ UNCHANGED <<impl, pstate, pc, exists, file, lines, sample_count, exc, obs,
                 exercise_phase, fn_args, db>>

SpecWindow == InitWindow /\ [][read_csv_tail]_vars

-----------------------------------------------------------------------------
(* app.py: the appointments and the patients of DummyDB *)

\* the appointments the store is let grow to
MaxAppointments == 3

\* the doctors and the patients who use the store: dr.garcia, paciente.torn
\* and paciente.nuevo are the users DummyDB.__init__ adds; dr.lopez stands
\* for a doctor registered later
Doctors == {"dr.garcia", "dr.lopez"}
Patients == {"paciente.torn", "paciente.nuevo"}

\* the ids 'appt-1', 'appt-2', ... by their number
AppointmentIds == 1..(MaxAppointments + 1)

\* DummyDB.schedule_appointment: data['id'] = 'appt-' + str(len(...) + 1);
\* data['status'] = data.get('status', 'scheduled'); append
ScheduleAppointment(appts) ==
    Append(appts, [id |-> Len(appts) + 1, status |-> "scheduled"])

\* DummyDB.update_appointment: the first appointment with that id is updated
\* with the caller's {'status': new_status, ...}
UpdateAppointment(appts, id, new_status) ==
    LET hits == {i \in 1..Len(appts) : appts[i].id = id}
    IN  IF hits = {} THEN appts
        ELSE LET first == CHOOSE i \in hits : \A j \in hits : i <= j
             IN  [appts EXCEPT ![first].status = new_status]

\* DummyDB.delete_appointment: every appointment with that id is dropped
DeleteAppointment(appts, id) == SelectSeq(appts, LAMBDA a : a.id # id)

\* DummyDB.add_patient: the patient's info is created or updated with the
\* doctor
AddPatient(info, username, doctor_user) ==
    [u \in DOMAIN info \cup {username} |->
        IF u = username THEN [doctor_user |-> doctor_user] ELSE info[u]]

\* DummyDB.disassociate_patient: del _PATIENT_INFO_DB[patient_username]
DisassociatePatient(info, username) ==
    [u \in DOMAIN info \ {username} |-> info[u]]

\* DummyDB.get_all_patients_for_doctor: the usernames whose doctor_user is
\* the doctor; for dr.garcia with none assigned, the test patient
GetAllPatientsForDoctor(info, doctor_username) ==
    LET assigned_patients ==
            {u \in DOMAIN info : info[u].doctor_user = doctor_username}
    IN  IF assigned_patients = {} /\ doctor_username = "dr.garcia"
        THEN {"paciente.torn"}
        ELSE assigned_patients

\* the store is used while the pipeline never starts
DbFrame ==
    UNCHANGED <<impl, pstate, pc, exists, file, lines, sample_count, exc, obs,
                exercise_phase>>

schedule_appointment ==
    /\ Len(APPOINTMENTS_DB) < MaxAppointments
    /\ APPOINTMENTS_DB' = ScheduleAppointment(APPOINTMENTS_DB)
    /\ fn_args' = [fn |-> "schedule_appointment"]
    /\ fn_result' = [fn |-> "schedule_appointment",
                     id |-> Len(APPOINTMENTS_DB) + 1]
    /\ UNCHANGED PATIENT_INFO_DB
    /\ DbFrame

update_appointment ==
    /\ \E id \in AppointmentIds, st \in {"confirmed", "cancelled"} :
          /\ APPOINTMENTS_DB' = UpdateAppointment(APPOINTMENTS_DB, id, st)
          /\ fn_args' = [fn |-> "update_appointment", id |-> id, status |-> st]
    /\ fn_result' = [fn |-> "update_appointment"]
    /\ UNCHANGED PATIENT_INFO_DB
    /\ DbFrame

delete_appointment ==
    /\ \E id \in AppointmentIds :
          /\ APPOINTMENTS_DB' = DeleteAppointment(APPOINTMENTS_DB, id)
          /\ fn_args' = [fn |-> "delete_appointment", id |-> id]
          /\ fn_result' =
                [fn |-> "delete_appointment",
                 returned |-> Len(DeleteAppointment(APPOINTMENTS_DB, id))
                                 < Len(APPOINTMENTS_DB)]
    /\ UNCHANGED PATIENT_INFO_DB
    /\ DbFrame

add_patient ==
    /\ \E u \in Patients, d \in Doctors :
          /\ PATIENT_INFO_DB' = AddPatient(PATIENT_INFO_DB, u, d)
          /\ fn_args' = [fn |-> "add_patient", username |-> u, doctor_user |-> d]
    /\ fn_result' = [fn |-> "add_patient"]
    /\ UNCHANGED APPOINTMENTS_DB
    /\ DbFrame

disassociate_patient ==
    /\ \E u \in Patients :
          /\ fn_args' = [fn |-> "disassociate_patient", patient_username |-> u]
          /\ IF u \in DOMAIN PATIENT_INFO_DB
             THEN /\ PATIENT_INFO_DB' = DisassociatePatient(PATIENT_INFO_DB, u)
                  /\ fn_result' = [fn |-> "disassociate_patient", returned |-> TRUE]
             ELSE /\ PATIENT_INFO_DB' = PATIENT_INFO_DB
                  /\ fn_result' = [fn |-> "disassociate_patient", returned |-> FALSE]
    /\ UNCHANGED APPOINTMENTS_DB
    /\ DbFrame

get_all_patients_for_doctor ==
    /\ \E d \in Doctors :
          /\ fn_args' = [fn |-> "get_all_patients_for_doctor", doctor_username |-> d]
          /\ fn_result' = [fn |-> "get_all_patients_for_doctor",
                           returned |-> GetAllPatientsForDoctor(PATIENT_INFO_DB, d)]
    /\ UNCHANGED db
    /\ DbFrame

InitDb == PipelineIdle /\ fn_args = NoCall /\ fn_result = NoCall

NextDb ==
    \/ schedule_appointment
    \/ update_appointment
    \/ delete_appointment
    \/ add_patient
    \/ disassociate_patient
    \/ get_all_patients_for_doctor

SpecDb == InitDb /\ [][NextDb]_vars

-----------------------------------------------------------------------------
(* Properties *)

\* the producer is between two iterations of its loop
BetweenAppends == pstate = "RUNNING" /\ pc = "loop"

\* the sample rows of the file (all rows but the first)
NumSamples == Len(file) - 1

\* C1: simulator.py, truncation invariant: after N completed appends to a
\* freshly initialized transport the file holds the header and exactly
\* min(N, MAX_SAMPLES) samples.
C1_TruncationInvariant ==
    (impl = "simulator" /\ BetweenAppends) =>
        /\ file # <<>>
        /\ IsHeader(file[1])
        /\ NumSamples = Min(sample_count, MAX_SAMPLES)

\* more appends than the capacity have completed and the window is full
C1_Witness ==
    /\ impl = "simulator" /\ BetweenAppends
    /\ sample_count > MAX_SAMPLES + 1
    /\ NumSamples = MAX_SAMPLES

\* C2: simulator.py, FIFO eviction: after N completed appends the window is
\* the last min(N, MAX_SAMPLES) appended samples in append order; after 260
\* appends its first sample is the 11th appended one.
C2_FifoEviction ==
    (impl = "simulator" /\ BetweenAppends) =>
        LET n == Min(sample_count, MAX_SAMPLES) IN
        /\ Len(file) = n + 1
        /\ \A i \in 1..n : file[i + 1].timestamp = sample_count - n + i
        /\ sample_count = 260 => file[2].timestamp = 11

\* 260 appends have completed and the oldest ten samples are gone
C2_Witness ==
    /\ impl = "simulator" /\ BetweenAppends
    /\ sample_count = 260
    /\ file[2].timestamp = 11
    /\ file[Len(file)].timestamp = 260

\* C3: app.py's producer keeps the number of samples in the transport at
\* most a fixed capacity (MAX_SAMPLES, the capacity the repository uses).
C3_AppWindowBounded ==
    impl = "app" => NumSamples <= MAX_SAMPLES

-----------------------------------------------------------------------------
(* Properties of the callbacks.  A step that changes obs is a callback     *)
(* returning; the file it read is the file of that step.                   *)

\* a callback returns in this step
CallbackReturns == obs' # obs

\* the number of rows the callback c takes with tail()
TailOf(c) == IF c = "monitor_patient_health" THEN HEALTH_TAIL ELSE CHART_TAIL

\* the indexes in the file of the sample rows that form the window of c
WindowRows(c) == {i \in 2..Len(file) : i > Len(file) - TailOf(c)}

\* what a callback returns for a window of two or more unflagged samples
NormalOutcome(c) == Outcome(c, "classified", FALSE, FALSE, TRUE)

\* C4: with simulator.py's producer, once MAX_SAMPLES samples have been
\* produced every read of the transport sees the header followed by
\* MAX_SAMPLES samples (at worst MAX_SAMPLES - 1) and the callback obtains
\* its window.
C4_ReadersSeeFullWindow ==
    [][(/\ CallbackReturns /\ obs'.did_read
        /\ impl = "simulator" /\ pstate = "RUNNING"
        /\ sample_count >= MAX_SAMPLES)
       => /\ file # <<>>
          /\ IsHeader(file[1])
          /\ NumSamples \in {MAX_SAMPLES - 1, MAX_SAMPLES}
          /\ obs'.outcome = "classified"]_vars

\* C5 as claimed: every callback that read a window reports the arrhythmia
\* alert iff a sample of the window is flagged RED_FLAG_ARRHYTHMIA, and the
\* fatigue alert iff a sample of the window is flagged RED_FLAG_FATIGUE.
C5_OrReductionAsClaimed ==
    [][(CallbackReturns /\ obs'.did_read /\ file # <<>>)
       => /\ obs'.arrhythmia <=>
               \E i \in WindowRows(obs'.consumer) : file[i].status_ecg = RED_FLAG_ARRHYTHMIA
          /\ obs'.fatigue <=>
               \E i \in WindowRows(obs'.consumer) : file[i].status_imu = RED_FLAG_FATIGUE]_vars

\* C5 (amended): every callback that classifies the window it read reports
\* the arrhythmia alert iff a sample of the window is flagged
\* RED_FLAG_ARRHYTHMIA, wherever it is in the window; update_sensor_charts
\* and monitor_patient_health report the fatigue alert iff a sample of the
\* window is flagged RED_FLAG_FATIGUE; update_main_dashboard_auto reports no
\* fatigue alert; update_sensor_charts classifies only windows of two or more
\* samples.
C5_OrReduction ==
    [][(CallbackReturns /\ obs'.outcome = "classified")
       => LET c == obs'.consumer IN
          /\ obs'.arrhythmia <=>
               \E i \in WindowRows(c) : file[i].status_ecg = RED_FLAG_ARRHYTHMIA
          /\ c # "update_main_dashboard_auto" =>
               (obs'.fatigue <=>
                  \E i \in WindowRows(c) : file[i].status_imu = RED_FLAG_FATIGUE)
          /\ c = "update_main_dashboard_auto" => ~obs'.fatigue
          /\ c = "update_sensor_charts" => Cardinality(WindowRows(c)) >= 2]_vars

\* monitor_patient_health reports both alerts for a window of 100 samples
\* whose only flagged sample is the oldest one of the window
C5_Witness ==
    /\ impl = "app"
    /\ NumSamples = HEALTH_TAIL
    /\ file[2].status_ecg = RED_FLAG_ARRHYTHMIA
    /\ file[2].status_imu = RED_FLAG_FATIGUE
    /\ obs = Outcome("monitor_patient_health", "classified", TRUE, TRUE, TRUE)

\* C6: every callback that read a window of fewer than two samples returns
\* an outcome distinct from the one it returns for a window of two or more
\* unflagged samples.
C6_InsufficientDataDistinct ==
    [][(CallbackReturns /\ obs'.did_read /\ file # <<>> /\ NumSamples < 2)
       => obs' # NormalOutcome(obs'.consumer)]_vars


\* C7: alert persistence, app.py's producer: a callback that classifies its
\* window reports the arrhythmia alert whenever a flagged sample has fewer
\* than K newer samples appended after it (K = the rows the callback takes
\* with tail), and reports no alert once every flagged sample has K or more
\* newer samples.
C7_AlertPersistence ==
    [][(CallbackReturns /\ obs'.outcome = "classified" /\ impl = "app" /\ pstate # "INIT")
       => LET K == TailOf(obs'.consumer)
              flagged == {i \in 2..Len(file) : file[i].status_ecg = RED_FLAG_ARRHYTHMIA}
          IN  /\ (\E i \in flagged : sample_count - file[i].timestamp < K)
                   => obs'.arrhythmia
              /\ (\A i \in flagged : sample_count - file[i].timestamp >= K)
                   => ~obs'.arrhythmia]_vars

\* the first sample was flagged, 50 newer samples have been appended, and
\* update_sensor_charts reports no arrhythmia any more
C7_Witness ==
    /\ impl = "app"
    /\ sample_count = CHART_TAIL + 1
    /\ NumSamples = sample_count
    /\ file[2].status_ecg = RED_FLAG_ARRHYTHMIA
    /\ obs = Outcome("update_sensor_charts", "classified", FALSE, FALSE, TRUE)

\* C8: the producer is fail-fast in both implementations: it goes
\* INIT -> RUNNING -> STOPPED, a step in which an exception is raised ends in
\* STOPPED, and from STOPPED it takes no further step (no retry, no return
\* to RUNNING, no further sample).
C8_FailFast ==
    [][/\ pstate = "INIT" => pstate' \in {"INIT", "RUNNING", "STOPPED"}
       /\ pstate = "RUNNING" => pstate' \in {"RUNNING", "STOPPED"}
       /\ pstate = "STOPPED" =>
            (pstate' = "STOPPED" /\ UNCHANGED <<pc, file, sample_count, exc>>)
       /\ exc' # exc => (exc = "none" /\ pstate' = "STOPPED")
       /\ pstate' = "STOPPED" => exc' # "none"]_vars

\* app.py's producer has stopped on an exception after producing samples
C8_Witness ==
    /\ impl = "app"
    /\ pstate = "STOPPED"
    /\ exc = "swallowed"
    /\ sample_count > 1

\* C9: an exception that ends the producer's loop (an append that cannot open
\* or write the transport) propagates out of run_simulator to its caller.
C9_AppendErrorPropagates ==
    (pstate = "STOPPED" /\ exc # "interrupted") => exc = "propagated"

\* C10: a callback that runs while the stream file does not exist returns
\* its waiting / no-update outcome, reports no alert and does not read the
\* file.
C10_MissingTransportNotAnError ==
    [][(CallbackReturns /\ ~exists)
       => /\ obs'.outcome =
               (IF obs'.consumer = "update_sensor_charts" THEN "waiting" ELSE "no_update")
          /\ ~obs'.did_read
          /\ ~obs'.arrhythmia /\ ~obs'.fatigue]_vars

\* update_sensor_charts has answered "waiting", without reading, while the
\* stream file does not exist
C10_Witness ==
    /\ ~exists
    /\ obs = Outcome("update_sensor_charts", "waiting", FALSE, FALSE, FALSE)

\* what a callback hands back to Dash when it returns
ReturnValues == {"waiting", "collecting", "error", "no_update", "classified"}

\* the stream file holds a malformed row
HasMalformed(f) == \E i \in 1..Len(f) : Malformed(f[i])

\* C11: whatever the stream file looks like when a callback fires (missing,
\* empty, header only, partly rewritten, holding a malformed row), the
\* callback returns a value: no exception leaves it
C11_ReaderNeverCrashes ==
    [][CallbackReturns => obs'.outcome \in ReturnValues]_vars

\* update_sensor_charts has read the file the running producer had just
\* truncated, pd.read_csv raised, and the callback returned its handler's value
C11_Witness ==
    /\ obs = ChartsExcept
    /\ exists /\ pstate = "RUNNING" /\ file = <<>>

\* the rows of f that precede its first malformed row
WellFormedPrefix(f) ==
    IF HasMalformed(f)
    THEN SubSeq(f, 1, (CHOOSE k \in 1..Len(f) :
                          /\ Malformed(f[k])
                          /\ \A j \in 1..(k - 1) : ~Malformed(f[j])) - 1)
    ELSE f

\* the fewest rows the callback c classifies: update_sensor_charts returns
\* early below 2 rows, update_main_dashboard_auto on an empty frame
MinWindow(c) ==
    IF c = "update_sensor_charts" THEN 2
    ELSE IF c = "update_main_dashboard_auto" THEN 1 ELSE 0

\* C12: when the stream file holds a malformed row after well-formed ones, a
\* callback that reads it leaves the malformed tail out and returns what the
\* window of the well-formed prefix gives (its alerts, or the early return of
\* a window that is too short), not its error value.
C12_ReaderReturnsPrefix ==
    [][(/\ CallbackReturns /\ obs'.did_read
        /\ HasMalformed(file) /\ IsHeader(file[1]))
       => LET c == obs'.consumer
              w == DfTail(Tail(WellFormedPrefix(file)), TailOf(c))
          IN  IF Len(w) >= MinWindow(c)
              THEN /\ obs'.outcome = "classified"
                   /\ obs'.arrhythmia = AnyArrhythmia(w)
              ELSE /\ obs'.outcome \in {"collecting", "no_update"}
                   /\ ~obs'.arrhythmia /\ ~obs'.fatigue]_vars

\* C13: a malformed row in the stream file is fatal for the producer: when it
\* appends and finds one, it stops instead of copying the row into the
\* rewritten window and going on, so the file never holds a sample written
\* after a malformed row.
C13_WriterStopsOnCorrupt ==
    \A i \in 1..Len(file) : Malformed(file[i]) => i = Len(file)

\* C14: a read leaves the stream file as it found it, so the same callback
\* fired again before any producer step reads the same contents: what the
\* callback returned is what a read of the file as it is after the step
\* returns.
C14_ReadIdempotent ==
    [][CallbackReturns
       => /\ file' = file /\ exists' = exists
          /\ obs'.did_read =>
               /\ obs'.consumer = "update_sensor_charts"
                     => SensorChartsResult(TRUE) = obs'
               /\ obs'.consumer = "update_main_dashboard_auto"
                     => MainDashboardResult("/") = obs'
               /\ obs'.consumer = "monitor_patient_health"
                     => PatientHealthResult("patient1") = obs']_vars

\* update_sensor_charts has read a window of the running producer's file and
\* classified it, and the file is still the one it read
C14_Witness ==
    /\ BetweenAppends /\ sample_count >= 2
    /\ obs.consumer = "update_sensor_charts" /\ obs.outcome = "classified"
    /\ SensorChartsResult(TRUE) = obs

\* load_ecg_and_compute_bpm has returned
BpmReturned == fn_result.fn = "load_ecg_and_compute_bpm"

\* C15: with fewer than 2 peaks the estimator returns the bpm 0 exactly (no
\* NaN, no division by zero); with 2 or more peaks at strictly increasing
\* times it returns a finite bpm greater than 0.
C15_DegenerateBpm ==
    BpmReturned =>
       IF Len(fn_args.peaks) < 2
       THEN fn_result.bpm = ZeroBpm
       ELSE fn_result.bpm.num > 0 /\ fn_result.bpm.den > 0

\* the estimator has returned 0 for a recording of several samples with a
\* single peak
C15_Witness ==
    /\ BpmReturned /\ Len(fn_args.t) >= 3 /\ Len(fn_args.peaks) = 1
    /\ fn_result.bpm = ZeroBpm

\* C16: the R-R intervals are the differences of the times of consecutive
\* peaks and bpm = 60 / mean(R-R), that is 60 * (k - 1) over the seconds
\* from the first to the last of the k peaks; peaks exactly 0.8 s apart
\* give 75 bpm.
C16_BpmFormula ==
    (BpmReturned /\ Len(fn_args.peaks) >= 2) =>
       LET t   == fn_args.t
           pk  == fn_args.peaks
           k   == Len(pk)
           rr  == fn_result.rr_intervals
           bpm == fn_result.bpm
       IN  /\ Len(rr) = k - 1
           /\ \A i \in 1..(k - 1) : rr[i] = t[pk[i + 1]] - t[pk[i]]
           /\ bpm.num * (t[pk[k]] - t[pk[1]]) = bpm.den * 60 * TicksPerSecond * (k - 1)
           /\ (\A i \in 1..(k - 1) : 10 * rr[i] = 8 * TicksPerSecond)
                 => bpm.num = 75 * bpm.den

\* the estimator has returned 75 bpm for 3 peaks 0.8 s apart that are not
\* adjacent samples of the recording
C16_Witness ==
    /\ BpmReturned /\ Len(fn_args.peaks) = 3 /\ Len(fn_args.t) > 3
    /\ \A i \in 1..2 : 10 * fn_result.rr_intervals[i] = 8 * TicksPerSecond
    /\ fn_result.bpm.num = 75 * fn_result.bpm.den

\* C17: the knee angle that generate_imu_sample returns as accel_x is
\* within [0, 100] degrees for every t and both exercise phases, in
\* simulator.py and in app.py.
C17_ClampInvariant ==
    fn_result.fn = "generate_imu_sample"
       => fn_result.accel_x >= 0 /\ fn_result.accel_x <= Deg(100)

\* run_simulator assigns exercise_phase in this step, for its next sample
PhaseAssigned ==
    \/ impl = "app" /\ sample_count' # sample_count
    \/ impl = "simulator" /\ pc = "loop" /\ pc' = "have_lines"

\* the phase after n produced samples, from the phase of the sample before:
\* extension first, then a change of phase every PhaseSamples samples
PhaseByCount(n) ==
    IF n = 0 THEN "extension"
    ELSE IF n % PhaseSamples = 0
         THEN (IF exercise_phase = "extension" THEN "flexion" ELSE "extension")
         ELSE exercise_phase

\* C18: the exercise phase of a produced sample depends only on the number n
\* of samples produced before it: it is extension iff (n div P) is even, P
\* being 100 in simulator.py and 20 in app.py, so the run starts in extension
\* and the phase changes exactly every P samples, whatever the callbacks do.
C18_PhaseBySampleCount ==
    [][/\ PhaseAssigned
          => /\ exercise_phase' = PhaseByCount(sample_count)
             /\ exercise_phase' = "extension"
                   <=> (sample_count \div PhaseSamples) % 2 = 0
       /\ sample_count' # sample_count
          => (exercise_phase' = "extension"
                <=> (sample_count \div PhaseSamples) % 2 = 0)]_vars

\* simulator.py's producer is in its third phase (extension again, after 200
\* samples) while a callback has classified a window
C18_Witness ==
    /\ impl = "simulator" /\ sample_count > 2 * PhaseSamples
    /\ exercise_phase = "extension" /\ obs.outcome = "classified"

\* C19: every synthesizer derives the status from the values it drew:
\* status_ecg is RED_FLAG_ARRHYTHMIA exactly when the magnitude of the noise
\* exceeds its threshold, status_imu is RED_FLAG_FATIGUE exactly when a
\* secondary axis (accel_y, gyro_y) exceeds its threshold; in simulator.py
\* as in app.py.
C19_StatusByThreshold ==
    /\ fn_result.fn = "generate_ecg_sample"
          => (fn_result.status = RED_FLAG_ARRHYTHMIA
                <=> Abs(fn_args.noise) > EcgNoiseThreshold)
    /\ fn_result.fn = "generate_imu_sample"
          => (fn_result.status = RED_FLAG_FATIGUE
                <=> \/ Abs(fn_result.accel_y) > AccelYThreshold
                    \/ Abs(fn_result.gyro_y) > GyroYThreshold)

\* C21: whenever a callback reads the stream file while the producer runs,
\* also in the middle of an append's rewrite, the first row of the file is
\* the schema header.
C21_FirstRowIsHeader ==
    [][(CallbackReturns /\ obs'.did_read /\ pstate = "RUNNING")
       => file # <<>> /\ IsHeader(file[1])]_vars

\* C22: init_stream_file wipes: whatever the stream file held before, when
\* init_stream_file returns it holds the header and no sample;
\* run_simulator calls it once, before its first append, and never again
\* once it is RUNNING.
C22_InitializeWipes ==
    [][/\ (pstate = "INIT" /\ pstate' = "RUNNING")
          => /\ exists' /\ file' = <<HeaderRow>>
             /\ sample_count' = 0
       /\ (pstate = "INIT" /\ pc' # pc)
          => <<pc, pc'>> \in {<<"start", "init_opened">>,
                              <<"init_opened", "loop">>,
                              <<"start", "done">>, <<"init_opened", "done">>}
       /\ pstate # "INIT"
          => pstate' # "INIT" /\ pc' \notin {"start", "init_opened"}
       /\ (sample_count' # sample_count \/ pc = "have_lines")
          => pstate = "RUNNING"]_vars

\* a callback has classified the flagged sample an earlier run had left in
\* the file, and init_stream_file has since left the header alone in it
C22_Witness ==
    /\ pstate = "RUNNING" /\ pc = "loop" /\ sample_count = 0
    /\ file = <<HeaderRow>>
    /\ obs.outcome = "classified" /\ obs.arrhythmia

\* the sample rows of a file
Samples(f) == IF f = <<>> THEN <<>> ELSE Tail(f)

\* an append completes in this step
AppendCompletes == sample_count' = sample_count + 1

\* the file as it was when the append that completes in this step began:
\* simulator.py read it into `lines`, app.py appends to the file as it is
FileBeforeAppend == IF impl = "simulator" THEN lines ELSE file

\* the cells of the rows of f
CellsOf(f) == [i \in 1..Len(f) |-> Cells(f[i])]

\* C23 as claimed: samples are immutable once written: every sample row the
\* file retains between two appends is byte for byte the row that was
\* appended, line terminator included.
C23_SamplesImmutableAsClaimed ==
    BetweenAppends =>
       \A i \in 2..Len(file) :
          file[i] = SampleRow(file[i].timestamp, file[i].status_ecg,
                              file[i].status_imu)

\* C23 (amended): a completed append leaves the cells of the header and of
\* every sample row it retains as they were and in the same order; all it
\* does to the cells is drop rows from the front and add one row at the
\* end.  simulator.py's append rewrites the line terminator of every row it
\* retains as '\n'; app.py's append leaves the retained rows byte for byte.
C23_SamplesImmutable ==
    [][AppendCompletes
       => LET old == CellsOf(Samples(FileBeforeAppend))
              new == CellsOf(Samples(file'))
          IN  /\ file' # <<>> /\ Cells(file'[1]) = Cells(FileBeforeAppend[1])
              /\ new # <<>>
              /\ new[Len(new)].timestamp = sample_count'
              /\ file'[Len(file')].eol = "CRLF"
              /\ \E k \in 0..Len(old) :
                    SubSeq(new, 1, Len(new) - 1) = SubSeq(old, k + 1, Len(old))
              /\ \A i \in 1..(Len(file') - 1) :
                    file'[i].eol = IF impl = "simulator" THEN "LF" ELSE file[i].eol]_vars

\* simulator.py has completed an append that dropped the oldest sample and
\* kept the 249 after it
C23_Witness ==
    /\ impl = "simulator" /\ BetweenAppends
    /\ sample_count = MAX_SAMPLES + 2
    /\ file[2].timestamp = 3 /\ file[Len(file)].timestamp = sample_count

\* C24: the producer does not depend on the consumers: a callback changes
\* nothing the producer reads or writes (so it can neither disable nor delay
\* a producer step), and under fairness of the producer alone, whether the
\* callbacks never poll or poll at any rate, the producer goes on producing
\* samples, up to the bound of the model, unless an I/O error or an
\* interrupt stops it.
C24_ProducerIndependent ==
    /\ [][CallbackReturns
          => UNCHANGED <<impl, pstate, pc, exists, file, lines, sample_count,
                         exc, exercise_phase>>]_vars
    /\ <>(sample_count = MaxAppends \/ pstate = "STOPPED")

\* the producer has produced every sample of the bound and no callback has
\* ever fired
C24_Witness ==
    /\ pstate = "RUNNING" /\ sample_count = MaxAppends
    /\ obs = NoCallback

\* C25: no backlog: the window a callback obtains is the min(n, K) most
\* recent of the n sample rows the file holds when it is read, in the order
\* of the file, K being 50 for the live charts and 100 for the health
\* monitor: never an older row, never more than K rows.
C25_NoBacklog ==
    fn_result.fn = "read_csv_tail" =>
       LET K    == IF fn_args.consumer = "monitor_patient_health" THEN 100 ELSE 50
           rows == Tail(fn_args.f)
           n    == Len(rows)
           w    == fn_result.window
       IN  /\ Len(w) = Min(n, K)
           /\ \A i \in 1..Len(w) : w[i] = rows[n - Len(w) + i]

\* monitor_patient_health has obtained the 100 newest of 120 samples
C25_Witness ==
    /\ fn_result.fn = "read_csv_tail"
    /\ fn_args.consumer = "monitor_patient_health"
    /\ Len(fn_args.f) = 121
    /\ Len(fn_result.window) = 100
    /\ fn_result.window[1].timestamp = 21
    /\ fn_result.window[100].timestamp = 120

\* C26: a failed append loses no sample: when the producer stops in its
\* loop, the stream file still holds the header and every sample it held
\* when the append that failed began (min(sample_count, MAX_SAMPLES) of
\* them in simulator.py).
C26_FailedAppendLosesNothing ==
    [][(impl = "simulator" /\ pstate = "RUNNING" /\ pstate' = "STOPPED")
       => /\ file' # <<>> /\ IsHeader(file'[1])
          /\ Len(file') - 1 = Min(sample_count, MAX_SAMPLES)]_vars

\* C27: once run_simulator has stopped, on an exception or on Ctrl-C, the
\* producer writes nothing more: from a STOPPED state every step leaves the
\* stream file, its existence and the sample count as they are, and the
\* producer stays STOPPED, while the callbacks go on polling.
C27_StoppedWritesNothing ==
    [][pstate = "STOPPED"
       => /\ pstate' = "STOPPED"
          /\ file' = file /\ exists' = exists
          /\ sample_count' = sample_count]_vars

\* app.py's producer has stopped after an append and update_sensor_charts
\* has since classified the window it left
C27_Witness ==
    /\ impl = "app" /\ pstate = "STOPPED" /\ sample_count >= 2
    /\ NumSamples = sample_count
    /\ obs.consumer = "update_sensor_charts" /\ obs.outcome = "classified"

\* the step writes the sample row numbered sample_count + 1 at the end of the
\* file
WroteSample ==
    /\ file' # <<>>
    /\ file'[Len(file')].timestamp = sample_count + 1
    /\ file = <<>> \/ file[Len(file)].timestamp # sample_count + 1

\* C28: sample_count counts persisted samples: it changes only by one, in a
\* step of the running loop that writes a sample row at the end of the file,
\* and every such write that leaves the loop running counts; so whenever an
\* iteration starts, sample_count is the number of the last sample appended
\* since initialization (0 and an empty window before the first), and for
\* app.py's append-only producer the number of sample rows in the file.
C28_CountsPersisted ==
    /\ [][/\ sample_count' # sample_count
             => /\ sample_count' = sample_count + 1
                /\ pstate = "RUNNING" /\ pstate' = "RUNNING"
                /\ WroteSample
          /\ (WroteSample /\ pstate' = "RUNNING")
             => sample_count' = sample_count + 1]_vars
    /\ [](BetweenAppends
          => /\ file # <<>>
             /\ IF sample_count = 0 THEN NumSamples = 0
                ELSE file[Len(file)].timestamp = sample_count
             /\ impl = "app" => NumSamples = sample_count)

\* app.py has appended 30 samples and the file holds 30 sample rows;
\* the next iteration is about to start
C28_Witness ==
    /\ impl = "app" /\ BetweenAppends
    /\ sample_count = 30 /\ NumSamples = 30
    /\ file[Len(file)].timestamp = 30

\* C29: appointment ids are unique: after any sequence of
\* schedule_appointment, update_appointment and delete_appointment calls no
\* two appointments of the store have the same id.
C29_AppointmentIdsUnique ==
    \A i, j \in 1..Len(APPOINTMENTS_DB) :
        APPOINTMENTS_DB[i].id = APPOINTMENTS_DB[j].id => i = j

\* the patient whom the last call disassociated with the result True
Disassociated ==
    IF fn_result = [fn |-> "disassociate_patient", returned |-> TRUE]
    THEN {fn_args.patient_username} ELSE {}

\* C30: disassociation is observable: when disassociate_patient(p) has
\* returned True, get_all_patients_for_doctor(d) does not hold p for any
\* doctor d (no add_patient has associated p again).
C30_DisassociationObservable ==
    \A p \in Disassociated, d \in Doctors :
        p \notin GetAllPatientsForDoctor(PATIENT_INFO_DB, d)

====
